---- MODULE Spec2Model ----
(***************************************************************************)
(* Agent SDK setup tool (setup_agent_sdks.py): the configuration loader    *)
(* (load_sdk_config), the directory prompt (get_installation_directory),   *)
(* the two-stage interactive selector (select_languages,                   *)
(* display_sdk_menu), the confirmation prompt of main, and the sequential  *)
(* installer (install_sdk, clone_repository, run_command) with the result  *)
(* lists main accumulates.                                                 *)
(*                                                                         *)
(* A line of text is a sequence of characters; a character is a one-entry  *)
(* string, except "SUP2" which stands for U+00B2 SUPERSCRIPT TWO, a        *)
(* character for which str.isdigit() is true and int() raises ValueError.  *)
(***************************************************************************)
EXTENDS Integers, Sequences, FiniteSets, TLC

VARIABLES config_file, incomplete_sdks, config, pc, choice, msg,
          selected_languages, sdk_list, selected,
          selected_sdks, current, command_index, commands_run, attempted,
          successful_installs, failed_installs, exit_code,
          before_languages, before_selected, selection_order

\* config_file is what sdks.json holds and incomplete_sdks the kits whose
\* entry in it lacks the "repo" field.
\* before_languages and before_selected are history variables: the selection
\* set of stage 1 and of stage 2 as it was when the last line was read.
\* selection_order is a history variable of display_sdk_menu: the selected
\* indices that were toggled on one by one, in the order of their toggling.
vars == <<config_file, incomplete_sdks, config, pc, choice, msg,
          selected_languages, sdk_list, selected,
          selected_sdks, current, command_index, commands_run, attempted,
          successful_installs, failed_installs, exit_code,
          before_languages, before_selected, selection_order>>

----------------------------------------------------------------------------
(* Bounds of the model.                                                    *)

\* Largest number of kits a catalog holds over all its languages.
MaxKits == 3

----------------------------------------------------------------------------
(* Text: str.strip, str.lower, str.isdigit and int.                        *)

DecimalChars == {"0", "1", "2", "3", "4", "5"}

\* Characters str.isdigit() accepts: the decimals and the superscript digit.
DigitChars == DecimalChars \cup {"SUP2"}

WhitespaceChars == {" "}

\* The lines of text the user enters at a prompt.
Lines ==
  { <<>>, <<" ">>,
    <<"a">>, <<"A">>, <<"n">>, <<"y">>, <<" ", "Y", " ">>,
    <<"d", "o", "n", "e">>, <<" ", "D", "o", "n", "e", " ">>,
    <<"0">>, <<"1">>, <<"2">>, <<"3">>, <<"4">>, <<"5">>,
    <<"0", "1">>, <<" ", "2", " ">>, <<"1", "2">>, <<"1", " ", "2">>,
    <<"-", "1">>, <<"x">>, <<"a", "a">>, <<"SUP2">> }

\* The lines of text the user enters at the update prompt of a kit.
UpdateLines == { <<"y">>, <<" ", "Y", " ">>, <<"n">>, <<>> }

LowerChar(c) ==
  CASE c = "A" -> "a"
    [] c = "D" -> "d"
    [] c = "Y" -> "y"
    [] OTHER -> c

Lower(s) == [i \in 1..Len(s) |-> LowerChar(s[i])]

RECURSIVE LStrip(_)
LStrip(s) ==
  IF s # <<>> /\ Head(s) \in WhitespaceChars THEN LStrip(Tail(s)) ELSE s

RECURSIVE RStrip(_)
RStrip(s) ==
  IF s # <<>> /\ s[Len(s)] \in WhitespaceChars
  THEN RStrip(SubSeq(s, 1, Len(s) - 1))
  ELSE s

Strip(s) == RStrip(LStrip(s))

\* str.isdigit(): non-empty and every character is a digit character.
IsDigit(s) == Len(s) > 0 /\ \A i \in 1..Len(s) : s[i] \in DigitChars

\* int(s) raises ValueError on a digit string holding a non-decimal digit.
IntRaises(s) == \E i \in 1..Len(s) : s[i] \notin DecimalChars

DigitValue(c) ==
  CASE c = "0" -> 0
    [] c = "1" -> 1
    [] c = "2" -> 2
    [] c = "3" -> 3
    [] c = "4" -> 4
    [] c = "5" -> 5

RECURSIVE ParseInt(_)
ParseInt(s) ==
  IF s = <<>> THEN 0
  ELSE 10 * ParseInt(SubSeq(s, 1, Len(s) - 1)) + DigitValue(s[Len(s)])

DONE == <<"d", "o", "n", "e">>

\* Value of choice before any line was read, and when input() was interrupted.
NoChoice == <<"none">>
Interrupted == <<"^C">>

----------------------------------------------------------------------------
(* Catalog: config['languages'][key]['sdks'] in the order of the file.     *)

\* list(config['languages'].keys())
languages == <<"python", "typescript">>

LanguageKeys == {languages[i] : i \in 1..Len(languages)}

\* Kit names in ascending order of Python's string comparison.
KitNames == <<"adk", "crewai", "langgraph">>

NameRank(name) == CHOOSE i \in 1..Len(KitNames) : KitNames[i] = name

\* The entry of a kit in a well-formed catalog: its repo and its
\* install_commands.
CompleteSdkData(name) ==
  CASE name = "adk" ->
         [repo |-> "adk-python", install_commands |-> <<>>]
    [] name = "crewai" ->
         [repo |-> "crewAI", install_commands |-> <<"pip install -e .">>]
    [] name = "langgraph" ->
         [repo |-> "langgraph",
          install_commands |-> <<"npm install", "npm run build">>]

\* sdk_data of a kit: its entry in the loaded configuration.
SdkData(name) ==
  IF name \in incomplete_sdks
  THEN [install_commands |-> CompleteSdkData(name).install_commands]
  ELSE CompleteSdkData(name)

Range(s) == {s[i] : i \in 1..Len(s)}

Injective(s) == \A i, j \in 1..Len(s) : s[i] = s[j] => i = j

\* The largest catalog: the kit names of each language in the key order of
\* its sdks mapping.
FullCatalog ==
  [python |-> <<"langgraph", "adk", "crewai">>,
   typescript |-> <<"crewai", "langgraph", "adk">>]

RECURSIVE SumLen(_, _)
SumLen(f, S) ==
  IF S = {} THEN 0
  ELSE LET x == CHOOSE y \in S : TRUE IN Len(f[x]) + SumLen(f, S \ {x})

\* The catalogs json.load can return: each language holds the first kits of
\* its list in FullCatalog, possibly none, MaxKits kits at most in all.
Catalogs ==
  {c \in {[lang \in LanguageKeys |-> SubSeq(FullCatalog[lang], 1, n[lang])] :
            n \in [LanguageKeys -> 0..Len(KitNames)]} :
     SumLen(c, LanguageKeys) <= MaxKits}

\* What sdks.json can hold: nothing (no file), text that is not JSON, JSON
\* without the "languages" key, languages without their "sdks" key, or a
\* catalog whose kits all have an entry.
ConfigFiles ==
  {"missing", "invalid json", "no languages", "language without sdks",
   "catalog"}

EmptyCatalog == [lang \in LanguageKeys |-> <<>>]

\* The kits whose entry can lack its "repo" field: none, or "crewai".
IncompleteSdks(c) ==
  {{}} \cup {{name} : name \in {"crewai"} \cap
                               UNION {Range(c[lang]) : lang \in LanguageKeys}}

\* Orders in which a Python set can be iterated.
Orders(S) == {s \in [1..Cardinality(S) -> S] : Injective(s)}

----------------------------------------------------------------------------
(* main up to select_languages: load_sdk_config and                        *)
(* get_installation_directory                                              *)

Init ==
  /\ config_file \in ConfigFiles
  /\ IF config_file = "catalog"
     THEN config \in Catalogs /\ incomplete_sdks \in IncompleteSdks(config)
     ELSE config = EmptyCatalog /\ incomplete_sdks = {}
  /\ pc = "load_sdk_config"
  /\ choice = NoChoice
  /\ msg = "Agent SDK Setup Tool"
  /\ selected_languages = {}
  /\ sdk_list = <<>>
  /\ selected = {}
  /\ selected_sdks = <<>>
  /\ current = 0
  /\ command_index = 0
  /\ commands_run = <<>>
  /\ attempted = <<>>
  /\ successful_installs = <<>>
  /\ failed_installs = <<>>
  /\ exit_code = -1
  /\ before_languages = {}
  /\ before_selected = {}
  /\ selection_order = <<>>

\* Variant of UnexpectedError that exits without a message.
UnexpectedErrorSilent ==
  /\ pc' = "exit"
  /\ exit_code' = 1
  /\ UNCHANGED msg

\* The exception handler of main: report and sys.exit(1).
UnexpectedError ==
  /\ pc' = "exit"
  /\ msg' = "Unexpected error"
  /\ exit_code' = 1

\* load_sdk_config: a missing file and a JSON syntax error end the run.
LoadSdkConfig ==
  /\ pc = "load_sdk_config"
  /\ IF config_file = "missing"
     THEN /\ pc' = "exit"
          /\ msg' = "Configuration file not found"
          /\ exit_code' = 1
     ELSE IF config_file = "invalid json"
     THEN /\ pc' = "exit"
          /\ msg' = "Invalid JSON in configuration file"
          /\ exit_code' = 1
     ELSE /\ pc' = "use_default_directory"
          /\ msg' = "Installation Directory Setup"
          /\ UNCHANGED exit_code
  /\ UNCHANGED <<config_file, incomplete_sdks, config, choice,
                 selected_languages, sdk_list, selected, selected_sdks,
                 current, command_index, commands_run, attempted,
                 successful_installs, failed_installs, before_languages,
                 before_selected, selection_order>>

\* Entry of select_languages up to its first prompt: reading
\* config['languages'] and each language's 'sdks' raises KeyError on a
\* configuration that lacks them.
EnterSelectLanguages ==
  /\ choice' = NoChoice
  /\ IF config_file = "catalog"
     THEN /\ pc' = "select_languages"
          /\ msg' = "Select Programming Languages"
          /\ selected_languages' = LanguageKeys
          /\ UNCHANGED exit_code
     ELSE /\ UnexpectedError
          /\ UNCHANGED selected_languages

\* get_installation_directory after base_dir is set: os.path.exists and
\* os.makedirs, whose OSError ends the run.
DirectoryChosen ==
  \E outcome \in {"exists", "created", "failed"} :
    IF outcome = "failed"
    THEN /\ pc' = "exit"
         /\ msg' = "Failed to create directory"
         /\ exit_code' = 1
         /\ UNCHANGED <<choice, selected_languages>>
    ELSE EnterSelectLanguages

\* get_installation_directory: "Use default directory? (y/n)".
UseDefaultInput(line) ==
  /\ pc = "use_default_directory"
  /\ LET answer == Strip(Lower(line)) IN
     IF answer = <<"y">>
     THEN DirectoryChosen
     ELSE IF answer = <<"n">>
     THEN /\ pc' = "custom_directory"
          /\ choice' = answer
          /\ UNCHANGED <<msg, selected_languages, exit_code>>
     ELSE /\ msg' = "Please enter 'y' for yes or 'n' for no"
          /\ choice' = answer
          /\ UNCHANGED <<pc, selected_languages, exit_code>>
  /\ UNCHANGED <<config_file, incomplete_sdks, config, sdk_list, selected,
                 selected_sdks, current, command_index, commands_run,
                 attempted, successful_installs, failed_installs,
                 before_languages, before_selected, selection_order>>

\* get_installation_directory: "Enter custom directory path: ".
CustomDirectoryInput(line) ==
  /\ pc = "custom_directory"
  /\ LET base_dir == Strip(line) IN
     IF base_dir = <<>>
     THEN /\ pc' = "use_default_directory"
          /\ msg' = "Directory path cannot be empty!"
          /\ choice' = base_dir
          /\ UNCHANGED <<selected_languages, exit_code>>
     ELSE DirectoryChosen
  /\ UNCHANGED <<config_file, incomplete_sdks, config, sdk_list, selected,
                 selected_sdks, current, command_index, commands_run,
                 attempted, successful_installs, failed_installs,
                 before_languages, before_selected, selection_order>>

----------------------------------------------------------------------------
(* select_languages                                                        *)

\* Variant of LoopExits that lets "done" leave with an empty selection set.
LoopExitsAlways(sel) == TRUE

\* "done": the loop is left only with a non-empty selection set.
LoopExits(sel) == sel # {}

\* "0 <= index < len(list)".
ValidIndex(index, list) == 0 <= index /\ index < Len(list)

\* Variant of AllIndices that starts the range at 1.
AllIndicesFromOne(list) == 1..(Len(list) - 1)

\* 'a' in display_sdk_menu: set(range(len(sdk_list))).
AllIndices(list) == 0..(Len(list) - 1)

\* Variant of Toggle that never removes a selected item.
ToggleNeverRemoves(sel, item) == sel \cup {item}

\* Variant of Toggle that clears the set where it should remove one item.
ToggleClears(sel, item) ==
  IF item \in sel THEN {} ELSE sel \cup {item}

\* Flip the membership of item in the selection set.
Toggle(sel, item) ==
  IF item \in sel THEN sel \ {item} ELSE sel \cup {item}

\* sdk_list.sort(key = name): stable insertion into a sorted list.
RECURSIVE InsertByName(_, _)
InsertByName(sorted, sdk) ==
  IF sorted = <<>> THEN <<sdk>>
  ELSE IF NameRank(sdk.name) < NameRank(Head(sorted).name)
       THEN <<sdk>> \o sorted
       ELSE <<Head(sorted)>> \o InsertByName(Tail(sorted), sdk)

RECURSIVE SortByName(_)
SortByName(list) ==
  IF list = <<>> THEN <<>>
  ELSE InsertByName(SortByName(SubSeq(list, 1, Len(list) - 1)),
                    list[Len(list)])

\* The kits of one language, in the order of its sdks mapping.
SdksOf(lang_key) ==
  [i \in 1..Len(config[lang_key]) |->
     [name |-> config[lang_key][i], language |-> lang_key,
      data |-> SdkData(config[lang_key][i])]]

RECURSIVE Collect(_)
Collect(lang_order) ==
  IF lang_order = <<>> THEN <<>>
  ELSE SdksOf(Head(lang_order)) \o Collect(Tail(lang_order))

\* Variant of BuildSdkList that leaves the kits in the order of collection.
BuildSdkListUnsorted(lang_order) == Collect(lang_order)

\* Variant of BuildSdkList that collects the kits of every language.
BuildSdkListOfAllLanguages(lang_order) ==
  SortByName(SdksOf("python") \o SdksOf("typescript"))

\* The list display_sdk_menu builds when it iterates the set in lang_order.
BuildSdkList(lang_order) == SortByName(Collect(lang_order))

SelectLanguagesInput(line) ==
  /\ pc = "select_languages"
  /\ choice' = Lower(Strip(line))
  /\ before_languages' = selected_languages
  /\ UNCHANGED <<config_file, incomplete_sdks, selection_order,
                 config, selected, selected_sdks, current, command_index,
                 commands_run, attempted, successful_installs,
                 failed_installs, before_selected>>
  /\ IF choice' = DONE
     THEN IF ~LoopExits(selected_languages)
          THEN /\ msg' = "No languages selected!"
               /\ UNCHANGED <<pc, selected_languages, sdk_list, exit_code>>
          ELSE /\ pc' = "display_sdk_menu"
               /\ msg' = "Select Agent SDKs to Install"
               /\ \E lang_order \in Orders(selected_languages) :
                    sdk_list' = BuildSdkList(lang_order)
               /\ UNCHANGED <<selected_languages, exit_code>>
     ELSE IF choice' = <<"a">>
     THEN /\ selected_languages' = LanguageKeys
          /\ msg' = "All languages selected"
          /\ UNCHANGED <<pc, sdk_list, exit_code>>
     ELSE IF choice' = <<"n">>
     THEN /\ selected_languages' = {}
          /\ msg' = "All selections cleared"
          /\ UNCHANGED <<pc, sdk_list, exit_code>>
     ELSE IF IsDigit(choice')
     THEN IF IntRaises(choice')
          THEN /\ UnexpectedError
               /\ UNCHANGED <<selected_languages, sdk_list>>
          ELSE LET index == ParseInt(choice') - 1 IN
               IF ValidIndex(index, languages)
               THEN /\ selected_languages' =
                         Toggle(selected_languages, languages[index + 1])
                    /\ msg' = IF languages[index + 1] \in selected_languages
                              THEN "Deselected" ELSE "Selected"
                    /\ UNCHANGED <<pc, sdk_list, exit_code>>
               ELSE /\ msg' = "Invalid selection number"
                    /\ UNCHANGED <<pc, selected_languages, sdk_list,
                                   exit_code>>
     ELSE /\ msg' = "Invalid choice"
          /\ UNCHANGED <<pc, selected_languages, sdk_list, exit_code>>

----------------------------------------------------------------------------
(* display_sdk_menu, and main up to the confirmation prompt                *)

\* s without its entries equal to x.
Without(s, x) == SelectSeq(s, LAMBDA y : y # x)

\* The list display_sdk_menu returns when it iterates selected in order.
ReturnedSdks(order) == [j \in 1..Len(order) |-> sdk_list[order[j] + 1]]

DisplaySdkMenuInput(line) ==
  /\ pc = "display_sdk_menu"
  /\ choice' = Lower(Strip(line))
  /\ before_selected' = selected
  /\ selection_order' =
       IF choice' = DONE
       THEN IF LoopExits(selected) THEN <<>> ELSE selection_order
       ELSE IF choice' \in {<<"a">>, <<"n">>}
       THEN <<>>
       ELSE IF IsDigit(choice') /\ ~IntRaises(choice')
               /\ ValidIndex(ParseInt(choice') - 1, sdk_list)
       THEN IF ParseInt(choice') - 1 \in selected
            THEN Without(selection_order, ParseInt(choice') - 1)
            ELSE Append(selection_order, ParseInt(choice') - 1)
       ELSE selection_order
  /\ UNCHANGED <<config_file, incomplete_sdks,
                 config, selected_languages, sdk_list, current,
                 command_index, commands_run, attempted,
                 successful_installs, failed_installs, before_languages>>
  /\ IF choice' = DONE
     THEN IF ~LoopExits(selected)
          THEN /\ msg' = "No SDKs selected!"
               /\ UNCHANGED <<pc, selected, selected_sdks, exit_code>>
          ELSE /\ \E order \in Orders(selected) :
                    selected_sdks' = ReturnedSdks(order)
               /\ IF selected_sdks' = <<>>
                  THEN /\ pc' = "exit"
                       /\ msg' = "No SDKs selected. Exiting."
                       /\ exit_code' = 0
                  ELSE /\ pc' = "confirm"
                       /\ msg' = "Installation Summary"
                       /\ UNCHANGED exit_code
               /\ UNCHANGED selected
     ELSE IF choice' = <<"a">>
     THEN /\ selected' = AllIndices(sdk_list)
          /\ msg' = "All SDKs selected"
          /\ UNCHANGED <<pc, selected_sdks, exit_code>>
     ELSE IF choice' = <<"n">>
     THEN /\ selected' = {}
          /\ msg' = "All selections cleared"
          /\ UNCHANGED <<pc, selected_sdks, exit_code>>
     ELSE IF IsDigit(choice')
     THEN IF IntRaises(choice')
          THEN /\ UnexpectedError
               /\ UNCHANGED <<selected, selected_sdks>>
          ELSE LET index == ParseInt(choice') - 1 IN
               IF ValidIndex(index, sdk_list)
               THEN /\ selected' = Toggle(selected, index)
                    /\ msg' = IF index \in selected
                              THEN "Deselected" ELSE "Selected"
                    /\ UNCHANGED <<pc, selected_sdks, exit_code>>
               ELSE /\ msg' = "Invalid selection number"
                    /\ UNCHANGED <<pc, selected, selected_sdks, exit_code>>
     ELSE /\ msg' = "Invalid choice"
          /\ UNCHANGED <<pc, selected, selected_sdks, exit_code>>

\* main: "Proceed with installation? (y/n)".
\* Variant of Proceeds that takes every answer but 'n' for a yes.
ProceedsUnlessNo(answer) == answer # <<"n">>

\* The answer main takes as the confirmation of the installation.
Proceeds(answer) == answer = <<"y">>

ConfirmInput(line) ==
  /\ pc = "confirm"
  /\ choice' = Strip(Lower(line))
  /\ UNCHANGED <<config_file, incomplete_sdks, selection_order,
                 config, selected_languages, sdk_list, selected,
                 selected_sdks, command_index, commands_run, attempted,
                 successful_installs, failed_installs, before_languages,
                 before_selected>>
  /\ IF ~Proceeds(choice')
     THEN /\ pc' = "exit"
          /\ msg' = "Installation cancelled."
          /\ exit_code' = 0
          /\ UNCHANGED current
     ELSE /\ pc' = "install_sdk"
          /\ msg' = "Starting Installation..."
          /\ current' = 1
          /\ UNCHANGED exit_code

----------------------------------------------------------------------------
(* install_sdk, clone_repository, run_command and the loop of main         *)

\* Variant of CurrentSdk that walks the list from its end.
CurrentSdkFromEnd == selected_sdks[Len(selected_sdks) - current + 1]

\* The kit the loop of main is at.
CurrentSdk == selected_sdks[current]

\* Variant of FinishSdk in which a failed kit ends the loop of main.
FinishSdkStopsOnFailure(ok, message) ==
  /\ successful_installs' =
       IF ok THEN Append(successful_installs, CurrentSdk.name)
       ELSE successful_installs
  /\ failed_installs' =
       IF ok THEN failed_installs
       ELSE Append(failed_installs, CurrentSdk.name)
  /\ IF ok /\ current < Len(selected_sdks)
     THEN /\ pc' = "install_sdk"
          /\ current' = current + 1
          /\ msg' = message
          /\ UNCHANGED exit_code
     ELSE /\ pc' = "exit"
          /\ msg' = "Installation Complete!"
          /\ exit_code' = 0
          /\ UNCHANGED current

\* Variant of FinishSdk whose report exits with status 1 when a kit failed.
FinishSdkExitsNonZeroOnFailure(ok, message) ==
  /\ successful_installs' =
       IF ok THEN Append(successful_installs, CurrentSdk.name)
       ELSE successful_installs
  /\ failed_installs' =
       IF ok THEN failed_installs
       ELSE Append(failed_installs, CurrentSdk.name)
  /\ IF current < Len(selected_sdks)
     THEN /\ pc' = "install_sdk"
          /\ current' = current + 1
          /\ msg' = message
          /\ UNCHANGED exit_code
     ELSE /\ pc' = "exit"
          /\ msg' = "Installation Complete!"
          /\ exit_code' = IF failed_installs' = <<>> THEN 0 ELSE 1
          /\ UNCHANGED current

\* Variant of FinishSdk that leaves a failed kit out of the result lists.
FinishSdkForgetsFailure(ok, message) ==
  /\ successful_installs' =
       IF ok THEN Append(successful_installs, CurrentSdk.name)
       ELSE successful_installs
  /\ UNCHANGED failed_installs
  /\ IF current < Len(selected_sdks)
     THEN /\ pc' = "install_sdk"
          /\ current' = current + 1
          /\ msg' = message
          /\ UNCHANGED exit_code
     ELSE /\ pc' = "exit"
          /\ msg' = "Installation Complete!"
          /\ exit_code' = 0
          /\ UNCHANGED current

\* install_sdk printed message and returned ok: main records the kit and
\* goes to the next one, or prints the report and returns after the last.
FinishSdk(ok, message) ==
  /\ successful_installs' =
       IF ok THEN Append(successful_installs, CurrentSdk.name)
       ELSE successful_installs
  /\ failed_installs' =
       IF ok THEN failed_installs
       ELSE Append(failed_installs, CurrentSdk.name)
  /\ IF current < Len(selected_sdks)
     THEN /\ pc' = "install_sdk"
          /\ current' = current + 1
          /\ msg' = message
          /\ UNCHANGED exit_code
     ELSE /\ pc' = "exit"
          /\ msg' = "Installation Complete!"
          /\ exit_code' = 0
          /\ UNCHANGED current

\* Variant of AfterClone that goes on to the install commands after a
\* failed clone or update.
AfterCloneIgnoresFailure(ok) ==
  IF CurrentSdk.data.install_commands = <<>>
  THEN FinishSdk(ok, "cloned successfully") /\ UNCHANGED command_index
  ELSE /\ pc' = "install_commands"
       /\ command_index' = 1
       /\ msg' = "Successfully cloned"
       /\ UNCHANGED <<current, successful_installs, failed_installs,
                      exit_code>>

\* Variant of AfterClone that fails a kit without install commands.
AfterCloneFailsWithoutCommands(ok) ==
  IF ~ok \/ CurrentSdk.data.install_commands = <<>>
  THEN FinishSdk(FALSE, "Failed to clone") /\ UNCHANGED command_index
  ELSE /\ pc' = "install_commands"
       /\ command_index' = 1
       /\ msg' = "Successfully cloned"
       /\ UNCHANGED <<current, successful_installs, failed_installs,
                      exit_code>>

\* install_sdk after clone_repository returned ok.
AfterClone(ok) ==
  IF ~ok
  THEN FinishSdk(FALSE, "Failed to clone") /\ UNCHANGED command_index
  ELSE IF CurrentSdk.data.install_commands = <<>>
  THEN FinishSdk(TRUE, "cloned successfully") /\ UNCHANGED command_index
  ELSE /\ pc' = "install_commands"
       /\ command_index' = 1
       /\ msg' = "Successfully cloned"
       /\ UNCHANGED <<current, successful_installs, failed_installs,
                      exit_code>>

\* Variant of UpdateAccepted that updates whatever the answer is.
UpdateAcceptedAlways(answer) == TRUE

\* clone_repository: "if choice == 'y'".
UpdateAccepted(answer) == answer = <<"y">>

\* Entry of install_sdk up to os.path.exists(clone_path); sdk_data["repo"]
\* raises KeyError on an entry without that field.
InstallSdk ==
  /\ pc = "install_sdk"
  /\ attempted' = Append(attempted, current)
  /\ commands_run' = <<>>
  /\ choice' = NoChoice
  /\ IF "repo" \notin DOMAIN CurrentSdk.data
     THEN UnexpectedError
     ELSE /\ msg' = "Cloning repository"
          /\ \E exists \in BOOLEAN :
               pc' = IF exists THEN "update_prompt" ELSE "git_clone"
          /\ UNCHANGED exit_code
  /\ UNCHANGED <<config_file, incomplete_sdks, selection_order,
                 config, selected_languages, sdk_list, selected,
                 selected_sdks, current, command_index,
                 successful_installs, failed_installs,
                 before_languages, before_selected>>

\* clone_repository: "Update existing repository? (y/n)".
UpdatePrompt(line) ==
  /\ pc = "update_prompt"
  /\ choice' = Strip(Lower(line))
  /\ UNCHANGED <<config_file, incomplete_sdks, selection_order,
                 config, selected_languages, sdk_list, selected,
                 selected_sdks, commands_run, attempted, before_languages,
                 before_selected>>
  /\ IF UpdateAccepted(choice')
     THEN /\ pc' = "git_pull"
          /\ UNCHANGED <<msg, current, command_index, successful_installs,
                         failed_installs, exit_code>>
     ELSE AfterClone(TRUE)

\* run_command: the record of one external command and its result.
Ran(kind, command, index, ok) ==
  [kind |-> kind, command |-> command, index |-> index, ok |-> ok]

\* run_command("git clone <repo>").
GitClone ==
  /\ pc = "git_clone"
  /\ \E ok \in BOOLEAN :
       /\ commands_run' =
            Append(commands_run, Ran("clone", CurrentSdk.data.repo, 0, ok))
       /\ AfterClone(ok)
  /\ UNCHANGED <<config_file, incomplete_sdks, selection_order,
                 config, choice, selected_languages, sdk_list, selected,
                 selected_sdks, attempted, before_languages,
                 before_selected>>

\* run_command("git pull").
GitPull ==
  /\ pc = "git_pull"
  /\ \E ok \in BOOLEAN :
       /\ commands_run' =
            Append(commands_run, Ran("pull", CurrentSdk.data.repo, 0, ok))
       /\ AfterClone(ok)
  /\ UNCHANGED <<config_file, incomplete_sdks, selection_order,
                 config, choice, selected_languages, sdk_list, selected,
                 selected_sdks, attempted, before_languages,
                 before_selected>>

\* Variant of AfterCommand that goes on to the next command after a failed
\* one.
AfterCommandIgnoresFailure(ok) ==
  IF command_index = Len(CurrentSdk.data.install_commands)
  THEN FinishSdk(ok, "Successfully installed") /\ UNCHANGED command_index
  ELSE /\ command_index' = command_index + 1
       /\ UNCHANGED <<pc, msg, current, successful_installs,
                      failed_installs, exit_code>>

\* install_sdk after run_command returned ok for an install command.
AfterCommand(ok) ==
  IF ~ok
  THEN FinishSdk(FALSE, "Failed to install") /\ UNCHANGED command_index
  ELSE IF command_index = Len(CurrentSdk.data.install_commands)
  THEN FinishSdk(TRUE, "Successfully installed") /\ UNCHANGED command_index
  ELSE /\ command_index' = command_index + 1
       /\ UNCHANGED <<pc, msg, current, successful_installs,
                      failed_installs, exit_code>>

\* One iteration of "for command in install_commands".
RunInstallCommand ==
  /\ pc = "install_commands"
  /\ \E ok \in BOOLEAN :
       /\ commands_run' =
            Append(commands_run,
                   Ran("install",
                       CurrentSdk.data.install_commands[command_index],
                       command_index, ok))
       /\ AfterCommand(ok)
  /\ UNCHANGED <<config_file, incomplete_sdks, selection_order,
                 config, choice, selected_languages, sdk_list, selected,
                 selected_sdks, attempted, before_languages,
                 before_selected>>

\* main: "except KeyboardInterrupt", raised in input() or while a command runs.
KeyboardInterrupt ==
  /\ pc # "exit"
  /\ pc' = "exit"
  /\ choice' = Interrupted
  /\ msg' = "Installation cancelled by user."
  /\ exit_code' = 1
  /\ UNCHANGED <<config_file, incomplete_sdks, selection_order,
                 config, selected_languages, sdk_list, selected,
                 selected_sdks, current, command_index, commands_run,
                 attempted, successful_installs, failed_installs,
                 before_languages, before_selected>>

Next ==
  \/ LoadSdkConfig
  \/ \E line \in Lines : UseDefaultInput(line)
  \/ \E line \in Lines : CustomDirectoryInput(line)
  \/ \E line \in Lines : SelectLanguagesInput(line)
  \/ \E line \in Lines : DisplaySdkMenuInput(line)
  \/ \E line \in Lines : ConfirmInput(line)
  \/ InstallSdk
  \/ \E line \in UpdateLines : UpdatePrompt(line)
  \/ GitClone
  \/ GitPull
  \/ RunInstallCommand
  \/ KeyboardInterrupt

Spec == Init /\ [][Next]_vars

----------------------------------------------------------------------------
(* Properties of the selection stages                                      *)

\* The line read at this step is a decimal numeral whose value is i.
Denotes(c, i) ==
  /\ c # <<>>
  /\ \A k \in 1..Len(c) : c[k] \in DecimalChars
  /\ ParseInt(c) = i

\* The line read is neither 'done', 'a', 'n' nor a number in 1..n.
NotACommand(c, n) ==
  /\ c # Interrupted
  /\ c \notin {DONE, <<"a">>, <<"n">>}
  /\ ~ \E i \in 1..n : Denotes(c, i)

\* C1: in both stages a numeric input i with 1 <= i <= N flips the
\* membership of the i-th displayed item, leaves the membership of every
\* other item as it was, and the loop continues in the same stage.
C1_ToggleFlipsOnlyTheChosenItem ==
  [][ /\ \A i \in 1..Len(languages) :
           (pc = "select_languages" /\ Denotes(choice', i)) =>
             /\ pc' = "select_languages"
             /\ \A l \in LanguageKeys \cup selected_languages' :
                  (l \in selected_languages') =
                    ((l \in selected_languages) # (l = languages[i]))
      /\ \A i \in 1..Len(sdk_list) :
           (pc = "display_sdk_menu" /\ Denotes(choice', i)) =>
             /\ pc' = "display_sdk_menu"
             /\ \A j \in AllIndices(sdk_list) \cup selected' :
                  (j \in selected') = ((j \in selected) # (j = i - 1))
    ]_vars

\* A kit was toggled off in stage 2 while another kit stays selected.
C1_Witness ==
  /\ pc = "display_sdk_menu"
  /\ msg = "Deselected"
  /\ choice = <<"2">>
  /\ before_selected = {0, 1}
  /\ selected = {0}

\* C2: in both stages an input that is a number outside 1..N, or that is
\* none of 'done', 'a', 'n' or a number, leaves the selection set as it was
\* and the loop stays in the same stage.
C2_InvalidInputReprompts ==
  [][ /\ (pc = "select_languages"
            /\ NotACommand(choice', Len(languages))) =>
           (pc' = pc /\ selected_languages' = selected_languages)
      /\ (pc = "display_sdk_menu"
            /\ NotACommand(choice', Len(sdk_list))) =>
           (pc' = pc /\ selected' = selected)
    ]_vars

\* C3: toggling the same valid index twice in a row returns the selection
\* set to the state it had before the first of the two toggles.
C3_ToggleTwiceRestores ==
  [][ /\ \A i \in 1..Len(languages) :
           (/\ pc = "select_languages"
            /\ msg \in {"Selected", "Deselected"}
            /\ Denotes(choice, i)
            /\ Denotes(choice', i)) =>
             selected_languages' = before_languages
      /\ \A i \in 1..Len(sdk_list) :
           (/\ pc = "display_sdk_menu"
            /\ msg \in {"Selected", "Deselected"}
            /\ Denotes(choice, i)
            /\ Denotes(choice', i)) =>
             selected' = before_selected
    ]_vars

\* Language 1 was toggled off and on again in stage 1.
C3_Witness ==
  /\ pc = "select_languages"
  /\ msg = "Selected"
  /\ choice = <<"1">>
  /\ before_languages = {"typescript"}
  /\ selected_languages = LanguageKeys

\* C4: 'done' with an empty selection set never leaves a stage, and a stage
\* is left by 'done' only with a non-empty selection set: stage 1 hands a
\* non-empty set of languages on, stage 2 a non-empty list of kits.
C4_DoneNeedsNonEmptySelection ==
  [][ /\ (pc = "select_languages" /\ choice' = DONE
            /\ selected_languages = {}) => pc' = "select_languages"
      /\ (pc = "display_sdk_menu" /\ choice' = DONE
            /\ selected = {}) => pc' = "display_sdk_menu"
      /\ (pc = "select_languages" /\ choice' = DONE
            /\ pc' # "select_languages") => selected_languages' # {}
      /\ (pc = "display_sdk_menu" /\ choice' = DONE
            /\ pc' # "display_sdk_menu") =>
           (selected # {} /\ selected_sdks' # <<>>)
    ]_vars

\* 'done' was entered in stage 2 with nothing selected out of a non-empty
\* list, and the stage was not left.
C4_Witness ==
  /\ pc = "display_sdk_menu"
  /\ choice = DONE
  /\ msg = "No SDKs selected!"
  /\ sdk_list # <<>>
  /\ selected = {}

\* The kits of the catalog, as pairs of language and kit name.
CatalogKits ==
  UNION {{<<lang, name>> : name \in Range(config[lang])} :
           lang \in LanguageKeys}

\* list holds every kit of the catalog exactly once and nothing else.
ExactlyAllKits(list) ==
  /\ \A kit \in CatalogKits :
       Cardinality({j \in 1..Len(list) :
                      /\ list[j].language = kit[1]
                      /\ list[j].name = kit[2]}) = 1
  /\ \A j \in 1..Len(list) :
       /\ <<list[j].language, list[j].name>> \in CatalogKits
       /\ list[j].data = SdkData(list[j].name)

\* C5: with all languages selected in stage 1, 'a' followed by 'done' in
\* stage 2 hands to the installer a list that holds every kit of the
\* catalog exactly once and nothing else (and leaves the stage whenever the
\* catalog has a kit).
C5_SelectAllThenDoneYieldsAllKits ==
  [][ (/\ pc = "display_sdk_menu"
       /\ selected_languages = LanguageKeys
       /\ choice = <<"a">>
       /\ msg = "All SDKs selected"
       /\ choice' = DONE) =>
        /\ ExactlyAllKits(selected_sdks')
        /\ CatalogKits # {} => pc' = "confirm"
    ]_vars

\* Stage 2 was left after 'a' with a catalog of three kits in two languages.
C5_Witness ==
  /\ pc = "confirm"
  /\ selected_languages = LanguageKeys
  /\ \A lang \in LanguageKeys : config[lang] # <<>>
  /\ before_selected = AllIndices(sdk_list)
  /\ Len(selected_sdks) = 3

----------------------------------------------------------------------------
(* Properties of the installer                                             *)

\* The update prompt of the kit being installed was answered with a refusal.
Declined == attempted # <<>> /\ choice \in {<<"n">>, <<>>}

\* The step reads a refusal at the update prompt.
DeclineStep == pc = "update_prompt" /\ choice' \in {<<"n">>, <<>>}

\* The kit whose commands commands_run records.
LoggedSdk == selected_sdks[attempted[Len(attempted)]]

IsInstall(ran) == ran.kind = "install"

IsGit(ran) == ran.kind \in {"clone", "pull"}

\* C6 as stated: when the target path exists and the user declines the
\* update, the kit yields Succeeded and no external command is invoked for
\* it, whatever its install command list.
C6_DeclinedUpdateRunsNoCommand ==
  Declined =>
    /\ commands_run = <<>>
    /\ pc # "install_commands"
    /\ successful_installs # <<>>
    /\ successful_installs[Len(successful_installs)] = LoggedSdk.name

\* C6 as amended: when the target path exists and the user declines the
\* update, no git command is invoked for the kit and the clone step counts
\* as successful; a kit with no install command yields Succeeded with no
\* external command at all, a kit with install commands goes on to run
\* them from the first one.
C6_DeclinedUpdateRunsNoGitCommand ==
  [][ /\ DeclineStep =>
           /\ commands_run' = <<>>
           /\ IF CurrentSdk.data.install_commands = <<>>
              THEN /\ successful_installs' =
                        Append(successful_installs, CurrentSdk.name)
                   /\ failed_installs' = failed_installs
              ELSE /\ pc' = "install_commands"
                   /\ command_index' = 1
                   /\ successful_installs' = successful_installs
                   /\ failed_installs' = failed_installs
      /\ Declined' =>
           \A j \in 1..Len(commands_run') : IsInstall(commands_run'[j])
    ]_vars

\* The update of a kit with install commands was declined and its first
\* install command has run.
C6_Witness ==
  /\ pc = "install_commands"
  /\ choice = <<"n">>
  /\ Len(commands_run) = 1
  /\ IsInstall(commands_run[1])

\* C7: when the kit list of stage 2 is empty, 'done' ends the run with the
\* "No SDKs selected. Exiting." notice and exit status 0, instead of
\* staying in the loop of stage 2.
C7_EmptyKitListEndsRun ==
  [][ (pc = "display_sdk_menu" /\ sdk_list = <<>> /\ choice' = DONE) =>
        /\ pc' = "exit"
        /\ msg' = "No SDKs selected. Exiting."
        /\ exit_code' = 0
        /\ attempted' = <<>>
    ]_vars

IsPrefix(s, t) == Len(s) <= Len(t) /\ SubSeq(t, 1, Len(s)) = s

\* C8: a failed kit never stops the run: the step that records a kit as
\* Failed goes on to the next kit of the chosen list (or to the report after
\* the last kit), the outcomes recorded so far stay as they are, each kit
\* the loop reaches is attempted, and at the report every chosen kit has
\* been attempted.
C8_FailedKitDoesNotStopTheRun ==
  [][ /\ IsPrefix(successful_installs, successful_installs')
      /\ IsPrefix(failed_installs, failed_installs')
      /\ Len(failed_installs') > Len(failed_installs) =>
           /\ successful_installs' = successful_installs
           /\ IF current < Len(selected_sdks)
              THEN pc' = "install_sdk" /\ current' = current + 1
              ELSE pc' = "exit" /\ msg' = "Installation Complete!"
      /\ (pc = "install_sdk" /\ pc' # "exit") =>
           attempted' = Append(attempted, current)
      /\ msg' = "Installation Complete!" =>
           attempted' = [j \in 1..Len(selected_sdks) |-> j]
    ]_vars

\* Of three chosen kits the first succeeded, the second failed and the third
\* is being attempted.
C8_Witness ==
  /\ Len(selected_sdks) = 3
  /\ successful_installs = <<selected_sdks[1].name>>
  /\ failed_installs = <<selected_sdks[2].name>>
  /\ attempted = <<1, 2, 3>>
  /\ pc = "git_clone"

\* C9: when the clone command of a kit fails, or its update command fails
\* after the user accepted the update, the kit is recorded as Failed and no
\* install command of the kit is executed.
C9_FailedCloneRunsNoInstallCommand ==
  [][ /\ (/\ pc \in {"git_clone", "git_pull"}
          /\ Len(commands_run') = Len(commands_run) + 1
          /\ ~ commands_run'[Len(commands_run')].ok) =>
           /\ failed_installs' = Append(failed_installs, CurrentSdk.name)
           /\ successful_installs' = successful_installs
           /\ pc' # "install_commands"
      /\ \A i \in 1..Len(commands_run') :
           (IsGit(commands_run'[i]) /\ ~ commands_run'[i].ok) =>
             i = Len(commands_run')
    ]_vars

\* The clone of a kit that has install commands failed.
C9_Witness ==
  /\ attempted # <<>>
  /\ LoggedSdk.data.install_commands # <<>>
  /\ Len(commands_run) = 1
  /\ commands_run[1].kind = "clone"
  /\ ~ commands_run[1].ok
  /\ failed_installs # <<>>

\* C10: after a successful clone or update the install commands of a kit
\* are executed in their listed order, each at most once; nothing is
\* executed after a command that failed, whose kit is Failed; and the kit is
\* Succeeded exactly when every one of its commands was executed and
\* succeeded.
C10_InstallCommandsInOrderUntilFirstFailure ==
  [][ attempted' # <<>> =>
        LET log == commands_run'
            ran == SelectSeq(log, IsInstall)
            install_commands == LoggedSdk'.data.install_commands
        IN /\ Len(ran) <= Len(install_commands)
           /\ \A j \in 1..Len(ran) :
                ran[j].index = j /\ ran[j].command = install_commands[j]
           /\ \A j \in 1..(Len(log) - 1) :
                log[j].ok /\ (IsInstall(log[j]) => IsInstall(log[j + 1]))
           /\ successful_installs' # successful_installs =>
                /\ Len(ran) = Len(install_commands)
                /\ \A j \in 1..Len(log) : log[j].ok
                /\ failed_installs' = failed_installs
           /\ failed_installs' # failed_installs =>
                /\ log # <<>>
                /\ ~ log[Len(log)].ok
                /\ successful_installs' = successful_installs
           /\ (pc \in {"git_clone", "git_pull", "install_commands"}
                 /\ log # commands_run /\ ~ log[Len(log)].ok) =>
                failed_installs' # failed_installs
           /\ pc' = "install_commands" =>
                Len(ran) < Len(install_commands)
    ]_vars

\* Both install commands of a kit ran after its clone, all succeeded, and
\* the kit is recorded as Succeeded.
C10_Witness ==
  /\ attempted # <<>>
  /\ Len(commands_run) = 3
  /\ commands_run[1].kind = "clone"
  /\ \A j \in 1..3 : commands_run[j].ok
  /\ successful_installs # <<>>
  /\ pc # "install_commands"

\* C11: a kit whose install command list is empty and whose clone succeeds
\* yields Succeeded, with the clone as the one external command executed
\* for it and no install command.
C11_CloneOnlyKitSucceedsAfterOneCommand ==
  [][ (/\ pc = "git_clone"
       /\ CurrentSdk.data.install_commands = <<>>
       /\ Len(commands_run') = Len(commands_run) + 1
       /\ commands_run'[Len(commands_run')].ok) =>
        /\ commands_run' = <<Ran("clone", CurrentSdk.data.repo, 0, TRUE)>>
        /\ successful_installs' =
             Append(successful_installs, CurrentSdk.name)
        /\ failed_installs' = failed_installs
        /\ pc' \in {"install_sdk", "exit"}
    ]_vars

\* The kit "adk", which has no install command, was cloned and is recorded
\* as Succeeded.
C11_Witness ==
  /\ attempted # <<>>
  /\ LoggedSdk.name = "adk"
  /\ Len(commands_run) = 1
  /\ commands_run[1].kind = "clone"
  /\ commands_run[1].ok
  /\ successful_installs # <<>>
  /\ successful_installs[Len(successful_installs)] = "adk"

----------------------------------------------------------------------------
(* Properties of the whole run                                             *)

\* The configuration deviates from the shape of a catalog.
Malformed == config_file # "catalog" \/ incomplete_sdks # {}

\* C12: a configuration that is missing, not parseable or not of the shape
\* of a catalog ends the run with a configuration error and a non-zero exit
\* before any prompt is shown and before any command is executed.
C12_MalformedConfigAbortsBeforeInteraction ==
  (Malformed /\ choice # Interrupted) =>
    /\ pc \in {"load_sdk_config", "exit"}
    /\ pc = "exit" =>
         /\ exit_code = 1
         /\ msg \in {"Configuration file not found",
                     "Invalid JSON in configuration file"}

SelectionStages == {"select_languages", "display_sdk_menu"}

\* C13: at a selection-stage prompt every line that is not a valid command
\* is answered with an error message and a new prompt of the same stage;
\* none ends the process or gives it an exit status.
C13_InvalidInputNeverEndsTheRun ==
  [][ (/\ pc \in SelectionStages
       /\ NotACommand(choice',
                      IF pc = "select_languages"
                      THEN Len(languages) ELSE Len(sdk_list))) =>
        /\ pc' = pc
        /\ exit_code' = -1
        /\ msg' \in {"Invalid choice", "Invalid selection number"}
    ]_vars

\* C14: a run that reaches the final report exits with status 0 however many
\* kits failed; a run that ends in a configuration error, a failure to
\* create the directory or an interrupt exits with a non-zero status.
C14_ExitStatus ==
  IF pc = "exit"
  THEN /\ msg = "Installation Complete!" => exit_code = 0
       /\ msg \in {"Configuration file not found",
                   "Invalid JSON in configuration file",
                   "Failed to create directory",
                   "Installation cancelled by user."} => exit_code = 1
       /\ config_file # "catalog" => exit_code = 1
  ELSE exit_code = -1

\* The report was reached with every chosen kit failed.
C14_Witness ==
  /\ pc = "exit"
  /\ msg = "Installation Complete!"
  /\ successful_installs = <<>>
  /\ Len(failed_installs) = 3
  /\ exit_code = 0

InstallerSteps ==
  {"install_sdk", "update_prompt", "git_clone", "git_pull",
   "install_commands"}

\* The position of kit in list.
PositionIn(list, kit) == CHOOSE j \in 1..Len(list) : list[j] = kit

\* C15 as stated: the kits are installed in the order in which the user
\* toggled them on: of two kits of the confirmed set, the one toggled on
\* first comes first in the list handed to the installer.
C15_InstalledInSelectionOrder ==
  [][ (pc = "display_sdk_menu" /\ pc' = "confirm") =>
        \A a, b \in 1..Len(selection_order) :
          a < b =>
            PositionIn(selected_sdks', sdk_list[selection_order[a] + 1]) <
            PositionIn(selected_sdks', sdk_list[selection_order[b] + 1])
    ]_vars

\* C15 as amended: the kits are installed one at a time in the order of the
\* list display_sdk_menu returns, which holds each selected kit once in the
\* iteration order of the set of selected indices; a kit is attempted only
\* when all kits before it in that list are finished, and the list is not
\* changed during the installation.
C15_InstalledInReturnedOrder ==
  [][ /\ (pc = "display_sdk_menu" /\ pc' = "confirm") =>
           \E order \in Orders(selected) :
             selected_sdks' = [j \in 1..Len(order) |-> sdk_list[order[j] + 1]]
      /\ pc \in InstallerSteps => selected_sdks' = selected_sdks
      /\ Len(attempted') > Len(attempted) =>
           /\ attempted' = [j \in 1..current |-> j]
           /\ Len(successful_installs) + Len(failed_installs) = current - 1
      /\ Len(successful_installs') > Len(successful_installs) =>
           /\ successful_installs' =
                Append(successful_installs, selected_sdks[current].name)
           /\ Len(attempted) = current
      /\ Len(failed_installs') > Len(failed_installs) =>
           /\ failed_installs' =
                Append(failed_installs, selected_sdks[current].name)
           /\ Len(attempted) = current
    ]_vars

\* The second kit of the returned list is attempted after the first one
\* finished, and the returned list is not in the order of the displayed one.
C15_Witness ==
  /\ Len(selected_sdks) = 2
  /\ selected_sdks[1] = sdk_list[2]
  /\ selected_sdks[2] = sdk_list[1]
  /\ attempted = <<1, 2>>
  /\ Len(successful_installs) + Len(failed_installs) = 1

\* The messages a run can end with.
ExitMessages ==
  {"Configuration file not found", "Invalid JSON in configuration file",
   "Failed to create directory", "Installation cancelled.",
   "Installation cancelled by user.", "Installation Complete!",
   "Unexpected error"}

\* C16: a failure during the installation that install_sdk does not turn
\* into a failed kit, such as a kit without a repo entry, is caught by main:
\* the run ends with the message "Unexpected error" and exit status 1, with
\* no command run for that kit, and no run ends without a message.
C16_UnhandledFailureIsReported ==
  [][ /\ (/\ pc = "install_sdk"
          /\ "repo" \notin DOMAIN CurrentSdk.data
          /\ choice' # Interrupted) =>
           /\ pc' = "exit"
           /\ msg' = "Unexpected error"
           /\ exit_code' = 1
           /\ commands_run' = <<>>
           /\ UNCHANGED <<successful_installs, failed_installs>>
      /\ (pc \in InstallerSteps /\ pc' = "exit") =>
           /\ msg' \in {"Installation Complete!", "Unexpected error",
                        "Installation cancelled by user."}
           /\ msg' # "Installation Complete!" => exit_code' = 1
      /\ pc' = "exit" => msg' \in ExitMessages
    ]_vars

\* The run ended with an unexpected error at a kit without a repo entry,
\* after an earlier kit was installed.
C16_Witness ==
  /\ pc = "exit"
  /\ msg = "Unexpected error"
  /\ exit_code = 1
  /\ successful_installs # <<>>
  /\ "repo" \notin DOMAIN selected_sdks[current].data
  /\ attempted[Len(attempted)] = current

----------------------------------------------------------------------------
(* Properties of the flat kit list                                         *)

SortedByName(list) ==
  \A i, j \in 1..Len(list) :
    i < j => NameRank(list[i].name) <= NameRank(list[j].name)

\* C17: the flat kit list is built when stage 2 is entered, is ordered by
\* kit name, and no stage-2 operation changes it; the kits returned for the
\* selected indices are the ones displayed at those indices.
C17_KitListIsSortedAndFixed ==
  [][ /\ (pc = "select_languages" /\ pc' = "display_sdk_menu") =>
           SortedByName(sdk_list')
      /\ pc = "display_sdk_menu" =>
           /\ sdk_list' = sdk_list
           /\ SortedByName(sdk_list)
      /\ (pc = "display_sdk_menu" /\ pc' = "confirm") =>
           /\ Len(selected_sdks') = Cardinality(selected)
           /\ \A i \in selected :
                \E j \in 1..Len(selected_sdks') :
                  selected_sdks'[j] = sdk_list[i + 1]
    ]_vars

\* Stage 2 shows three kits of two languages in the order of their names,
\* which is not the order of the configuration, and one of them is selected.
C17_Witness ==
  /\ pc = "display_sdk_menu"
  /\ Len(sdk_list) = 3
  /\ Collect(languages) # sdk_list
  /\ sdk_list[1].name = "adk"
  /\ selected = {1}
  /\ before_selected = {}

\* C18: the stage-2 list holds each kit of each language confirmed in stage
\* 1 once and no other kit, and every kit handed to the installer is a kit
\* of a selected language.
C18_KitListHoldsTheKitsOfSelectedLanguages ==
  (pc \in {"display_sdk_menu", "confirm"} \cup InstallerSteps) =>
    /\ \A lang \in selected_languages :
         \A i \in 1..Len(config[lang]) :
           Cardinality({j \in 1..Len(sdk_list) :
                          /\ sdk_list[j].language = lang
                          /\ sdk_list[j].name = config[lang][i]}) = 1
    /\ \A j \in 1..Len(sdk_list) :
         /\ sdk_list[j].language \in selected_languages
         /\ sdk_list[j].name \in Range(config[sdk_list[j].language])
    /\ \A j \in 1..Len(selected_sdks) :
         /\ selected_sdks[j].language \in selected_languages
         /\ selected_sdks[j].name \in Range(config[selected_sdks[j].language])

\* A kit of the one selected language is being installed while the other
\* language has kits too.
C18_Witness ==
  /\ pc \in InstallerSteps
  /\ selected_languages = {"typescript"}
  /\ config["python"] # <<>>
  /\ attempted # <<>>
  /\ selected_sdks[current].language = "typescript"

----------------------------------------------------------------------------
(* Properties of the report and of the confirmation                        *)

\* How many entries of list satisfy Test.
Count(list, Test(_)) == Cardinality({j \in 1..Len(list) : Test(list[j])})

\* C19: at the final report every kit of the confirmed set was attempted
\* once, in the order of the list; the two result lists together have as
\* many entries as the confirmed set, and every kit name is in the result
\* lists as often as in the confirmed set.
C19_ReportAccountsForEveryKit ==
  (pc = "exit" /\ msg = "Installation Complete!") =>
    /\ attempted = [j \in 1..Len(selected_sdks) |-> j]
    /\ Len(successful_installs) + Len(failed_installs) = Len(selected_sdks)
    /\ \A name \in Range(KitNames) :
         Count(successful_installs, LAMBDA n : n = name)
           + Count(failed_installs, LAMBDA n : n = name)
         = Count(selected_sdks, LAMBDA sdk : sdk.name = name)

\* The report of a run over three kits, with a succeeded and a failed one.
C19_Witness ==
  /\ pc = "exit"
  /\ msg = "Installation Complete!"
  /\ Len(selected_sdks) = 3
  /\ successful_installs # <<>>
  /\ failed_installs # <<>>

\* C20: no kit is attempted and no command is run before the user answers
\* 'y' to "Proceed with installation?"; every other answer ends the run
\* with exit status 0, no kit attempted and empty result lists.
C20_NothingRunsWithoutConfirmation ==
  [][ /\ (pc = "confirm" /\ choice' \notin {<<"y">>, Interrupted}) =>
           /\ pc' = "exit"
           /\ exit_code' = 0
           /\ msg' = "Installation cancelled."
           /\ attempted' = <<>>
           /\ commands_run' = <<>>
           /\ successful_installs' = <<>>
           /\ failed_installs' = <<>>
      /\ (pc \notin InstallerSteps /\ pc' \in InstallerSteps) =>
           (pc = "confirm" /\ choice' = <<"y">>)
      /\ pc \notin InstallerSteps =>
           /\ attempted' = <<>>
           /\ commands_run' = <<>>
           /\ successful_installs' = <<>>
           /\ failed_installs' = <<>>
    ]_vars

\* The user chose kits and then answered the confirmation with an empty line.
C20_Witness ==
  /\ pc = "exit"
  /\ msg = "Installation cancelled."
  /\ choice = <<>>
  /\ selected_sdks # <<>>
  /\ exit_code = 0
  /\ attempted = <<>>
====
